---------------------------- MODULE Spec2Model ----------------------------
(***************************************************************************)
(* SHA-1 as implemented by gaswelder/sha1.js.                              *)
(*                                                                         *)
(* Two implementations are modelled:                                       *)
(*   - src/sha1.js          the generator pipeline ("stream")              *)
(*   - src/unnamed/part_000 the whole-array, recursive version ("array")   *)
(*                                                                         *)
(* JavaScript numbers are IEEE doubles; every value the program forms is   *)
(* an integer of magnitude below 2^53, so it is exact.  TLC's integers are *)
(* 32 bits wide, so a JavaScript number is kept here as two limbs,         *)
(*      value = hi * 65536 + lo,   lo \in 0..65535,  hi \in Int            *)
(* which is exact for every value the program forms (|hi| stays < 2^21).   *)
(***************************************************************************)
EXTENDS Integers, Sequences, FiniteSets, TLC

Limb == 256 * 256

(***************************************************************************)
(* JavaScript number primitives on limb pairs.                             *)
(***************************************************************************)
Num(h, l) == [hi |-> h + (l \div Limb), lo |-> l % Limb]

FromInt(n) == Num(0, n)

Zero == Num(0, 0)

IsNeg(v) == v.hi < 0

\* JavaScript +
Add(x, y) == Num(x.hi + y.hi, x.lo + y.lo)

\* ToInt32: the operand conversion of <<, ^, &, |, ~
ToInt32(v) == [hi |-> ((v.hi + 32768) % Limb) - 32768, lo |-> v.lo]

\* ToUint32: the operand conversion of >>>, and Math floor-modulo by 2^32
Wrap32(v) == [hi |-> v.hi % Limb, lo |-> v.lo]

RECURSIVE Pow2(_)
Pow2(n) == IF n = 0 THEN 1 ELSE 2 * Pow2(n - 1)

RECURSIVE And16(_, _)
And16(x, y) ==
    IF x = 0 \/ y = 0 THEN 0
    ELSE (x % 2) * (y % 2) + 2 * And16(x \div 2, y \div 2)

RECURSIVE Or16(_, _)
Or16(x, y) ==
    IF x = 0 THEN y
    ELSE IF y = 0 THEN x
    ELSE (IF x % 2 = 1 \/ y % 2 = 1 THEN 1 ELSE 0) + 2 * Or16(x \div 2, y \div 2)

RECURSIVE Xor16(_, _)
Xor16(x, y) ==
    IF x = 0 THEN y
    ELSE IF y = 0 THEN x
    ELSE ((x + y) % 2) + 2 * Xor16(x \div 2, y \div 2)

\* JavaScript x & y, x | y, x ^ y, ~x: operands by ToInt32, result an int32
BitAnd(x, y) ==
    ToInt32([hi |-> And16(Wrap32(x).hi, Wrap32(y).hi), lo |-> And16(x.lo, y.lo)])

BitOr(x, y) ==
    ToInt32([hi |-> Or16(Wrap32(x).hi, Wrap32(y).hi), lo |-> Or16(x.lo, y.lo)])

BitXor(x, y) ==
    ToInt32([hi |-> Xor16(Wrap32(x).hi, Wrap32(y).hi), lo |-> Xor16(x.lo, y.lo)])

BitNot(x) ==
    ToInt32([hi |-> (Limb - 1) - Wrap32(x).hi, lo |-> (Limb - 1) - x.lo])

\* JavaScript x << n: ToInt32(x) shifted by n mod 32, result an int32
Shl(x, n) ==
    LET s == n % 32
        h == Wrap32(x).hi
    IN  IF s >= 16
        THEN ToInt32([hi |-> (x.lo * Pow2(s - 16)) % Limb, lo |-> 0])
        ELSE ToInt32([hi |-> (h * Pow2(s) + ((x.lo * Pow2(s)) \div Limb)) % Limb,
                      lo |-> (x.lo * Pow2(s)) % Limb])

\* JavaScript x >>> n: ToUint32(x) shifted by n mod 32, result a uint32
ShrU(x, n) ==
    LET s == n % 32
        h == Wrap32(x).hi
    IN  IF s >= 16
        THEN [hi |-> 0, lo |-> h \div Pow2(s - 16)]
        ELSE [hi |-> h \div Pow2(s),
              lo |-> ((h % Pow2(s)) * Pow2(16 - s) + (x.lo \div Pow2(s))) % Limb]

\* JavaScript unary minus
Neg(v) == [hi |-> -v.hi - (IF v.lo = 0 THEN 0 ELSE 1), lo |-> (Limb - v.lo) % Limb]

\* JavaScript v % 2^32: the remainder takes the sign of the dividend
Rem32(v) == IF IsNeg(v) THEN Neg(Wrap32(Neg(v))) ELSE Wrap32(v)

(***************************************************************************)
(* uint32, the two versions.                                               *)
(***************************************************************************)
\* Faulty variant: the sign fix-up is missing
uint32_NoSignFix(v) == Rem32(v)

RECURSIVE uint32(_)
uint32(v) ==
    IF IsNeg(v) THEN uint32(Add(v, [hi |-> Limb, lo |-> 0]))
    ELSE Rem32(v)

\* Faulty variant: the quotient is truncated, not floored
modulo_Trunc(a) == Rem32(a)

modulo(a) == Wrap32(a)

ToUint32(x) == modulo(x)

uint32A(v) == ToUint32(v)

u32(impl, v) == IF impl = "array" THEN uint32A(v) ELSE uint32(v)

isUint32(x) == x.hi >= 0 /\ x.hi <= Limb - 1

\* checkUint32(value): the message of the error it throws, "" when it returns
checkUint32(value) == IF isUint32(value) THEN "" ELSE "not uint32"

\* The first error of a sequence of checks, in evaluation order
RECURSIVE FirstErr(_)
FirstErr(es) ==
    IF es = <<>> THEN ""
    ELSE IF Head(es) # "" THEN Head(es)
    ELSE FirstErr(Tail(es))

(***************************************************************************)
(* Hexadecimal literals of the source and Number.prototype.toString(16).   *)
(***************************************************************************)
Hex4(a, b, c, d) == ((a * 16 + b) * 16 + c) * 16 + d

Hex8(a, b, c, d, e, g, h, i) == [hi |-> Hex4(a, b, c, d), lo |-> Hex4(e, g, h, i)]

HexChar == <<"0", "1", "2", "3", "4", "5", "6", "7",
             "8", "9", "a", "b", "c", "d", "e", "f">>

RECURSIVE HexNat(_)
HexNat(n) ==
    IF n < 16 THEN HexChar[n + 1]
    ELSE HexNat(n \div 16) \o HexChar[(n % 16) + 1]

HexLimb(n) ==
    HexChar[(n \div 4096) + 1] \o HexChar[((n \div 256) % 16) + 1]
        \o HexChar[((n \div 16) % 16) + 1] \o HexChar[(n % 16) + 1]

\* n.toString(16): no leading zeros, "-" before a negative number
RECURSIVE toString16(_)
toString16(n) ==
    IF IsNeg(n) THEN "-" \o toString16(Neg(n))
    ELSE IF n.hi = 0 THEN HexNat(n.lo)
    ELSE HexNat(n.hi) \o HexLimb(n.lo)

(***************************************************************************)
(* The round functions.  Where the two files differ only by the uint32     *)
(* they call, the operator takes the implementation as its first argument. *)
(***************************************************************************)
\* Logical functions f[i]: the error thrown, "" when none
fErr(t, B, C, D) ==
    FirstErr(<<checkUint32(B), checkUint32(C), checkUint32(D),
               IF t < 0 \/ t > 79 THEN "invalid f[i] number" ELSE "">>)

\* Faulty variant: parity in place of majority for t in [40, 60)
f_ParityForMajority(impl, t, B, C, D) ==
    IF t < 20 THEN u32(impl, BitOr(BitAnd(B, C), BitAnd(BitNot(B), D)))
    ELSE u32(impl, BitXor(BitXor(B, C), D))

f(impl, t, B, C, D) ==
    IF t < 20 THEN u32(impl, BitOr(BitAnd(B, C), BitAnd(BitNot(B), D)))
    ELSE IF t < 40 THEN u32(impl, BitXor(BitXor(B, C), D))
    ELSE IF t < 60 THEN u32(impl, BitOr(BitOr(BitAnd(B, C), BitAnd(B, D)), BitAnd(C, D)))
    ELSE u32(impl, BitXor(BitXor(B, C), D))

\* Constants K[i]
KErr(t) == IF t < 0 \/ t > 79 THEN "invalid K[i] number" ELSE ""

K(t) ==
    IF t < 20 THEN Hex8(5, 10, 8, 2, 7, 9, 9, 9)           \* 0x5a827999
    ELSE IF t < 40 THEN Hex8(6, 14, 13, 9, 14, 11, 10, 1)  \* 0x6ed9eba1
    ELSE IF t < 60 THEN Hex8(8, 15, 1, 11, 11, 12, 13, 12) \* 0x8f1bbcdc
    ELSE Hex8(12, 10, 6, 2, 12, 1, 13, 6)                  \* 0xca62c1d6

\* Rotate-left function
ROTLErr(times, value) ==
    IF ~isUint32(value) THEN "not uint32"
    ELSE IF times < 0 \/ times >= 32 THEN "invalid left shift amount"
    ELSE ""

\* Faulty variant: the right shift is one bit short
ROTL_OffByOne(impl, times, value) ==
    u32(impl, BitOr(u32(impl, Shl(value, times)), ShrU(value, 31 - times)))

ROTL(impl, times, value) ==
    u32(impl, BitOr(u32(impl, Shl(value, times)), ShrU(value, 32 - times)))

RECURSIVE addVec(_, _, _)
addVec(impl, xs, ys) ==
    IF Len(xs) = 0 THEN <<>>
    ELSE <<u32(impl, Add(Head(xs), Head(ys)))>> \o addVec(impl, Tail(xs), Tail(ys))

\* The five predefined words
IV ==
    << Hex8(6, 7, 4, 5, 2, 3, 0, 1),        \* 0x67452301
       Hex8(14, 15, 12, 13, 10, 11, 8, 9),  \* 0xefcdab89
       Hex8(9, 8, 11, 10, 13, 12, 15, 14),  \* 0x98badcfe
       Hex8(1, 0, 3, 2, 5, 4, 7, 6),        \* 0x10325476
       Hex8(12, 3, 13, 2, 14, 1, 15, 0) >>  \* 0xc3d2e1f0

(***************************************************************************)
(* Padding and block parsing.                                              *)
(***************************************************************************)
blockSizeBytes == 64

wordSizeBytes == 4

\* Math.ceil(x / y) for y > 0
CeilDiv(x, y) == -((-x) \div y)

\* Faulty variant: n = floor((length + 9) / 64) + 1
zeros_Over(length) ==
    LET n == ((length + 9) \div blockSizeBytes) + 1
    IN  blockSizeBytes * n - 9 - length

\* The number of zero bytes addZeros yields
zeros(length) ==
    LET n == CeilDiv(length + 9, blockSizeBytes)
    IN  blockSizeBytes * n - 9 - length

\* Returns length representation as a sequence of bytes,
\* least significant byte first.
distributeErr(length) == IF length < 0 THEN "negative length" ELSE ""

RECURSIVE distribute(_)
distribute(length) ==
    IF length = 0 THEN <<>>
    ELSE <<length % 256>> \o distribute(length \div 256)

Reverse(s) == [i \in 1..Len(s) |-> s[Len(s) + 1 - i]]

\* Faulty variant: the reverse() is missing
lengthSeq_LittleEndian(length) ==
    SubSeq(distribute(length * 8) \o [i \in 1..8 |-> 0], 1, 8)

\* The 8 bytes addLength yields
lengthSeq(length) ==
    Reverse(SubSeq(distribute(length * 8) \o [i \in 1..8 |-> 0], 1, 8))

\* Groups a bytes stream into a words stream.
wordsErr(stream) ==
    IF Len(stream) % wordSizeBytes # 0 THEN "incomplete word" ELSE ""

\* (s, byte) => s * 256 + byte
MulAdd(s, byte) == Num(s.hi * 256, s.lo * 256 + byte)

\* words(stream.slice(p - 1)): the recursion of words, by position
RECURSIVE wordsFrom(_, _)
wordsFrom(stream, p) ==
    IF p > Len(stream) THEN <<>>
    ELSE <<MulAdd(MulAdd(MulAdd(MulAdd(Zero, stream[p]), stream[p + 1]), stream[p + 2]),
                  stream[p + 3])>>
             \o wordsFrom(stream, p + wordSizeBytes)

words(stream) == wordsFrom(stream, 1)

(***************************************************************************)
(* The array version's padding and block parsing (src/unnamed/part_000).   *)
(***************************************************************************)
addEof(message) == message \o <<128>>

addZerosA(stream, length) == stream \o [i \in 1..zeros(length) |-> 0]

addLengthA(stream, length) == stream \o lengthSeq(length)

padMessageA(message) ==
    addLengthA(addZerosA(addEof(message), Len(message)), Len(message))

blocksErrA(stream) ==
    IF Len(stream) % blockSizeBytes # 0
    THEN "incomplete block at the end of stream"
    ELSE ""

RECURSIVE blocksA(_)
blocksA(stream) ==
    IF Len(stream) = 0 THEN <<>>
    ELSE <<words(SubSeq(stream, 1, blockSizeBytes))>>
             \o blocksA(SubSeq(stream, blockSizeBytes + 1, Len(stream)))

(***************************************************************************)
(* Inputs.                                                                 *)
(***************************************************************************)
\* The longest generated message
MaxLen == 57

Text(cs) == [type |-> "string", chars |-> cs]

\* n consecutive lowercase letters, the first one 'a' + start
Letters(start, n) == [j \in 1..n |-> 97 + start + (j - 1)]

RECURSIVE Windows(_, _, _)
Windows(from, to, n) ==
    IF from > to THEN <<>> ELSE Letters(from, n) \o Windows(from + 1, to, n)

\* The self-test table
Vec0 == <<>>                    \* ""

Vec1 == Letters(0, 3)           \* "abc"

Vec2 == Windows(0, 13, 4)       \* "abcdbcdecdefdefg...mnopnopq"

Vec3 == Windows(0, 13, 8)       \* "abcdefghbcdefghi...nopqrstu"

\* (the entry of one million "a" is left out)
table ==
    << <<Vec1, "a9993e36 4706816a ba3e2571 7850c26c 9cd0d89d">>,
       <<Vec0, "da39a3ee 5e6b4b0d 3255bfef 95601890 afd80709">>,
       <<Vec2, "84983e44 1c3bd26e baae4aa1 f95129e5 e54670f1">>,
       <<Vec3, "a49b2446 a02c645b f419f995 b6709125 3a04a259">> >>

\* A message of L single-byte characters
Fill(L) == [i \in 1..L |-> (37 * i + 11 * L) % 256]

\* Messages holding a character whose code is above 255
Wide == { <<97, 256>>, <<256>>, <<98, 0, 300, 1>> }

Inputs ==
    { Text(table[i][1]) : i \in 1..Len(table) }
        \cup { Text(Fill(L)) : L \in 0..MaxLen }
        \cup { Text(cs) : cs \in Wide }
        \cup { [type |-> "number", chars |-> <<>>],
               [type |-> "undefined", chars |-> <<>>] }

SingleByte(cs) == \A i \in 1..Len(cs) : cs[i] \in 0..255

(***************************************************************************)
(* State.                                                                  *)
(***************************************************************************)
VARIABLES
    input,      \* the argument of sha1: its typeof and, for a string, its code units
    impl,       \* "stream" (src/sha1.js) or "array" (src/unnamed/part_000)
    pc,         \* the position of the running sha1 call
    gen,        \* padMessage's position: [phase, length, i]
    stream,     \* the bytes padMessage has produced
    buf,        \* blocks: the bytes of the block being collected
    blockList,  \* the blocks produced by blocks
    rest,       \* array digest: the blocks still to process
    block,      \* digest: the block argument
    hash,       \* the running 5-word state (sum)
    W,          \* digest: the message schedule
    v,          \* digest: <<a, b, c, d, e>>
    t,          \* digest: the loop index
    states,     \* the state after each digest call
    error,      \* the message of the error thrown, "" when none
    out,        \* the value sha1 returned
    first,      \* what the stream run did, kept while the array run goes
    rot         \* a rotation and its inverse: [w, r, step, once, twice, error]

vars == <<input, impl, pc, gen, stream, buf, blockList, rest, block, hash, W, v, t,
          states, error, out, first, rot>>

NoFirst == [ran |-> FALSE]

NoRot == [step |-> "idle"]

Init ==
    /\ input \in Inputs
    /\ impl = "stream"
    /\ pc = "start"
    /\ gen = [phase |-> "message", length |-> 0, i |-> 0]
    /\ stream = <<>>
    /\ buf = <<>>
    /\ blockList = <<>>
    /\ rest = <<>>
    /\ block = <<>>
    /\ hash = <<>>
    /\ W = <<>>
    /\ v = <<>>
    /\ t = 0
    /\ states = <<>>
    /\ error = ""
    /\ out = <<>>
    /\ first = NoFirst
    /\ rot = NoRot

\* Faulty variant: the typeof test is missing
bytesErr_None(in) == ""

\* bytes: the error thrown for an input that is no string, "" when none
bytesErr(in) ==
    IF in.type = "string" THEN "" ELSE "unsupported input type"

\* An error propagates to the caller of sha1
Throw(msg) ==
    /\ error' = msg
    /\ pc' = "failed"

(***************************************************************************)
(* src/sha1.js: sha1 and the generators bytes, padMessage, blocks.         *)
(***************************************************************************)
\* sha1 up to the first iteration of its loop
Start ==
    /\ pc = "start"
    /\ impl = "stream"
    /\ hash' = IV
    /\ pc' = "pull"
    /\ UNCHANGED <<input, impl, gen, stream, buf, blockList, rest, block, W, v, t,
                   states, error, out, first, rot>>

\* blocks receives one byte of the stream
Consume(byte) ==
    /\ stream' = Append(stream, byte)
    /\ LET nbuf == Append(buf, byte)
       IN  /\ buf' = nbuf
           /\ IF Len(nbuf) = blockSizeBytes
              THEN IF wordsErr(nbuf) # ""
                   THEN /\ Throw(wordsErr(nbuf))
                        /\ UNCHANGED <<block, blockList>>
                   ELSE /\ block' = words(nbuf)
                        /\ blockList' = Append(blockList, words(nbuf))
                        /\ pc' = "digest"
                        /\ UNCHANGED error
              ELSE UNCHANGED <<pc, error, block, blockList>>

\* padMessage yields a byte of the message, or bytes throws
PullMessage ==
    /\ pc = "pull"
    /\ impl = "stream"
    /\ gen.phase = "message"
    /\ IF bytesErr(input) # ""
       THEN /\ Throw(bytesErr(input))
            /\ UNCHANGED <<gen, stream, buf, block, blockList>>
       ELSE /\ gen.length < Len(input.chars)
            /\ gen' = [gen EXCEPT !.length = @ + 1]
            /\ Consume(input.chars[gen.length + 1])
    /\ UNCHANGED <<input, impl, rest, hash, W, v, t, states, out, first, rot>>

\* the message is exhausted: padMessage yields the 'eof' byte
PullEof ==
    /\ pc = "pull"
    /\ impl = "stream"
    /\ gen.phase = "message"
    /\ bytesErr(input) = ""
    /\ gen.length = Len(input.chars)
    /\ gen' = [gen EXCEPT !.phase = "zeros", !.i = 0]
    /\ Consume(128)
    /\ UNCHANGED <<input, impl, rest, hash, W, v, t, states, out, first, rot>>

\* addZeros yields a zero
PullZero ==
    /\ pc = "pull"
    /\ impl = "stream"
    /\ gen.phase = "zeros"
    /\ gen.i < zeros(gen.length)
    /\ gen' = [gen EXCEPT !.i = @ + 1]
    /\ Consume(0)
    /\ UNCHANGED <<input, impl, rest, hash, W, v, t, states, out, first, rot>>

\* addLength yields a byte of the length
PullLength ==
    /\ pc = "pull"
    /\ impl = "stream"
    /\ \/ gen.phase = "zeros" /\ gen.i >= zeros(gen.length)
       \/ gen.phase = "length" /\ gen.i < Len(lengthSeq(gen.length))
    /\ LET j == IF gen.phase = "zeros" THEN 0 ELSE gen.i
       IN  IF distributeErr(gen.length * 8) # ""
           THEN /\ Throw(distributeErr(gen.length * 8))
                /\ UNCHANGED <<gen, stream, buf, block, blockList>>
           ELSE /\ gen' = [gen EXCEPT !.phase = "length", !.i = j + 1]
                /\ Consume(lengthSeq(gen.length)[j + 1])
    /\ UNCHANGED <<input, impl, rest, hash, W, v, t, states, out, first, rot>>

\* the stream is exhausted: blocks ends, and with it the loop of sha1
PullEnd ==
    /\ pc = "pull"
    /\ impl = "stream"
    /\ gen.phase = "length"
    /\ gen.i >= Len(lengthSeq(gen.length))
    /\ gen' = [gen EXCEPT !.phase = "end"]
    /\ IF Len(buf) # 0
       THEN Throw("incomplete block at the end of stream")
       ELSE /\ pc' = "return"
            /\ UNCHANGED error
    /\ UNCHANGED <<input, impl, stream, buf, blockList, rest, block, hash, W, v, t,
                   states, out, first, rot>>

\* return hash.map(n => n.toString(16))
Return ==
    /\ pc = "return"
    /\ out' = [i \in 1..Len(hash) |-> toString16(hash[i])]
    /\ pc' = "done"
    /\ UNCHANGED <<input, impl, gen, stream, buf, blockList, rest, block, hash, W, v, t,
                   states, error, first, rot>>

(***************************************************************************)
(* digest: both files run the same two loops; they differ in the checks on *)
(* entry, in the uint32 they call and in where the result goes.            *)
(***************************************************************************)
\* src/sha1.js digest, up to the first loop
DigestBegin ==
    /\ pc = "digest"
    /\ impl = "stream"
    /\ IF Len(block) # blockSizeBytes \div wordSizeBytes
       THEN /\ Throw("incorrect block size")
            /\ UNCHANGED <<W, t>>
       ELSE /\ W' = block
            /\ t' = 16
            /\ pc' = "schedule"
            /\ UNCHANGED error
    /\ UNCHANGED <<input, impl, gen, stream, buf, blockList, rest, block, hash, v,
                   states, out, first, rot>>

\* W[t] = ROTL(1, uint32(W[t - 3] ^ W[t - 8] ^ W[t - 14] ^ W[t - 16]))
scheduleWord(i, w, n) ==
    ROTL(i, 1, u32(i, BitXor(BitXor(BitXor(w[n - 3 + 1], w[n - 8 + 1]), w[n - 14 + 1]),
                             w[n - 16 + 1])))

scheduleErr(i, w, n) ==
    FirstErr(<<ROTLErr(1, u32(i, BitXor(BitXor(BitXor(w[n - 3 + 1], w[n - 8 + 1]),
                                               w[n - 14 + 1]), w[n - 16 + 1]))),
               checkUint32(scheduleWord(i, w, n))>>)

\* one iteration of the loop for (let t = 16; t < 80; t++)
Schedule ==
    /\ pc = "schedule"
    /\ t < 80
    /\ IF scheduleErr(impl, W, t) # ""
       THEN /\ Throw(scheduleErr(impl, W, t))
            /\ UNCHANGED <<W, t, v>>
       ELSE /\ W' = Append(W, scheduleWord(impl, W, t))
            /\ UNCHANGED error
            /\ IF t + 1 < 80
               THEN /\ t' = t + 1
                    /\ UNCHANGED <<pc, v>>
               ELSE /\ v' = hash
                    /\ t' = 0
                    /\ pc' = "round"
    /\ UNCHANGED <<input, impl, gen, stream, buf, blockList, rest, block, hash,
                   states, out, first, rot>>

\* T = uint32(ROTL(5, a) + f(t, b, c, d) + e + K(t) + W[t])
roundT(i, w, x, n) ==
    u32(i, Add(Add(Add(Add(ROTL(i, 5, x[1]), f(i, n, x[2], x[3], x[4])), x[5]), K(n)),
               w[n + 1]))

\* e = d; d = c; c = ROTL(30, b); b = a; a = T
roundStep(i, w, x, n) == <<roundT(i, w, x, n), x[1], ROTL(i, 30, x[2]), x[3], x[4]>>

roundErr(i, w, x, n) ==
    FirstErr(<<ROTLErr(5, x[1]), fErr(n, x[2], x[3], x[4]), KErr(n),
               ROTLErr(30, x[2]), checkUint32(ROTL(i, 30, x[2]))>>)

\* one iteration of the loop for (let t = 0; t < 80; t++)
Round ==
    /\ pc = "round"
    /\ t < 80
    /\ IF roundErr(impl, W, v, t) # ""
       THEN /\ Throw(roundErr(impl, W, v, t))
            /\ UNCHANGED <<v, t>>
       ELSE /\ v' = roundStep(impl, W, v, t)
            /\ t' = t + 1
            /\ pc' = IF t + 1 < 80 THEN "round" ELSE "addvec"
            /\ UNCHANGED error
    /\ UNCHANGED <<input, impl, gen, stream, buf, blockList, rest, block, hash, W,
                   states, out, first, rot>>

\* Faulty variant: blocks resumes without emptying buf
DigestReturn_KeepBuf ==
    /\ pc = "addvec"
    /\ impl = "stream"
    /\ hash' = addVec(impl, hash, v)
    /\ states' = Append(states, addVec(impl, hash, v))
    /\ pc' = "pull"
    /\ UNCHANGED <<input, impl, gen, stream, buf, blockList, rest, block, W, v, t,
                   error, out, first, rot>>

\* src/sha1.js: hash = digest(block, hash), and blocks resumes with buf = []
DigestReturn ==
    /\ pc = "addvec"
    /\ impl = "stream"
    /\ hash' = addVec(impl, hash, v)
    /\ states' = Append(states, addVec(impl, hash, v))
    /\ buf' = <<>>
    /\ pc' = "pull"
    /\ UNCHANGED <<input, impl, gen, stream, blockList, rest, block, W, v, t,
                   error, out, first, rot>>

(***************************************************************************)
(* src/unnamed/part_000: sha1 and the recursive digest.                    *)
(***************************************************************************)
\* the errors of sha1 before its call of digest
sha1ErrA(in) ==
    IF bytesErr(in) # "" THEN bytesErr(in)
    ELSE FirstErr(<<distributeErr(Len(in.chars) * 8),
                    IF Len(padMessageA(in.chars)) % blockSizeBytes # 0
                    THEN "stream size is not a multiple of the block size"
                    ELSE "",
                    blocksErrA(padMessageA(in.chars)),
                    wordsErr(padMessageA(in.chars))>>)

\* sha1 of the array version is called on the same input; it runs up to digest
ArrayCall ==
    /\ impl = "stream"
    /\ pc \in {"done", "failed"}
    /\ first' = [ran |-> TRUE, stream |-> stream, blockList |-> blockList,
                 states |-> states, error |-> error, out |-> out]
    /\ impl' = "array"
    /\ gen' = [phase |-> "end", length |-> 0, i |-> 0]
    /\ buf' = <<>>
    /\ block' = <<>>
    /\ W' = <<>>
    /\ v' = <<>>
    /\ t' = 0
    /\ states' = <<>>
    /\ out' = <<>>
    /\ IF sha1ErrA(input) # ""
       THEN /\ Throw(sha1ErrA(input))
            /\ stream' = <<>>
            /\ blockList' = <<>>
            /\ rest' = <<>>
            /\ hash' = <<>>
       ELSE /\ stream' = padMessageA(input.chars)
            /\ blockList' = blocksA(padMessageA(input.chars))
            /\ rest' = blocksA(padMessageA(input.chars))
            /\ hash' = IV
            /\ error' = ""
            /\ pc' = "recur"
    /\ UNCHANGED <<input, rot>>

\* digest(blocks, sum) with blocks empty returns sum, which sha1 maps to strings
ArrayReturn ==
    /\ impl = "array"
    /\ pc = "recur"
    /\ Len(rest) = 0
    /\ out' = [i \in 1..Len(hash) |-> toString16(hash[i])]
    /\ pc' = "done"
    /\ UNCHANGED <<input, impl, gen, stream, buf, blockList, rest, block, hash, W, v, t,
                   states, error, first, rot>>

blockErrA(b) ==
    IF Len(b) # 16 THEN "invalid block size"
    ELSE FirstErr([i \in 1..Len(b) |-> checkUint32(b[i])])

\* digest(blocks, sum) with a block to process, up to the first loop
DigestBeginA ==
    /\ impl = "array"
    /\ pc = "recur"
    /\ Len(rest) # 0
    /\ block' = Head(rest)
    /\ IF blockErrA(Head(rest)) # ""
       THEN /\ Throw(blockErrA(Head(rest)))
            /\ UNCHANGED <<W, t>>
       ELSE /\ W' = Head(rest)
            /\ t' = 16
            /\ pc' = "schedule"
            /\ UNCHANGED error
    /\ UNCHANGED <<input, impl, gen, stream, buf, blockList, rest, hash, v,
                   states, out, first, rot>>

\* return digest(rest, addVec(sum, [a, b, c, d, e]))
DigestRecurA ==
    /\ pc = "addvec"
    /\ impl = "array"
    /\ hash' = addVec(impl, hash, v)
    /\ states' = Append(states, addVec(impl, hash, v))
    /\ rest' = Tail(rest)
    /\ pc' = "recur"
    /\ UNCHANGED <<input, impl, gen, stream, buf, blockList, block, W, v, t,
                   error, out, first, rot>>

Next ==
    \/ Start
    \/ PullMessage
    \/ PullEof
    \/ PullZero
    \/ PullLength
    \/ PullEnd
    \/ Return
    \/ DigestBegin
    \/ Schedule
    \/ Round
    \/ DigestReturn
    \/ ArrayCall
    \/ ArrayReturn
    \/ DigestBeginA
    \/ DigestRecurA

Spec == Init /\ [][Next]_vars

(***************************************************************************)
(* ROTL on its own: a rotation by r followed by the rotation by 32 - r.    *)
(***************************************************************************)
\* The number of generated 16-bit patterns the rotated words are built from
RotSamples == 3

LimbSamples ==
    {0, 1, 32767, 32768, Limb - 1} \cup { (k * 4093 + 7) % Limb : k \in 1..RotSamples }

InitRotl ==
    /\ input = Text(<<>>)
    /\ impl \in {"stream", "array"}
    /\ pc = "idle"
    /\ gen = [phase |-> "end", length |-> 0, i |-> 0]
    /\ stream = <<>>
    /\ buf = <<>>
    /\ blockList = <<>>
    /\ rest = <<>>
    /\ block = <<>>
    /\ hash = <<>>
    /\ W = <<>>
    /\ v = <<>>
    /\ t = 0
    /\ states = <<>>
    /\ error = ""
    /\ out = <<>>
    /\ first = NoFirst
    /\ \E h \in LimbSamples, l \in LimbSamples, r \in 0..31 :
          rot = [step |-> "call", w |-> [hi |-> h, lo |-> l], r |-> r,
                 once |-> Zero, twice |-> Zero, error |-> ""]

\* once = ROTL(r, w)
RotOnce ==
    /\ rot.step = "call"
    /\ IF ROTLErr(rot.r, rot.w) # ""
       THEN rot' = [rot EXCEPT !.step = "failed", !.error = ROTLErr(rot.r, rot.w)]
       ELSE rot' = [rot EXCEPT !.step = "back", !.once = ROTL(impl, rot.r, rot.w)]
    /\ UNCHANGED <<input, impl, pc, gen, stream, buf, blockList, rest, block, hash, W, v,
                   t, states, error, out, first>>

\* twice = ROTL(32 - r, once)
RotBack ==
    /\ rot.step = "back"
    /\ IF ROTLErr(32 - rot.r, rot.once) # ""
       THEN rot' = [rot EXCEPT !.step = "failed",
                               !.error = ROTLErr(32 - rot.r, rot.once)]
       ELSE rot' = [rot EXCEPT !.step = "done",
                               !.twice = ROTL(impl, 32 - rot.r, rot.once)]
    /\ UNCHANGED <<input, impl, pc, gen, stream, buf, blockList, rest, block, hash, W, v,
                   t, states, error, out, first>>

NextRotl ==
    \/ RotOnce
    \/ RotBack

SpecRotl == InitRotl /\ [][NextRotl]_vars

(***************************************************************************)
(* Properties.                                                             *)
(***************************************************************************)
RECURSIVE Join(_)
Join(strs) ==
    IF Len(strs) = 0 THEN ""
    ELSE IF Len(strs) = 1 THEN strs[1]
    ELSE strs[1] \o " " \o Join(Tail(strs))

MsgLen == Len(input.chars)

IsText == input.type = "string"

Running == pc \in {"digest", "schedule", "round", "addvec"}

\* padMessage has produced its whole stream
PadDone ==
    \/ impl = "stream" /\ gen.phase = "end"
    \/ impl = "array" /\ Len(stream) # 0

\* C1: for each short test vector of the self-test table, sha1 completes and
\* its five strings joined with single spaces equal the digest listed beside it.
C1_TestVectors ==
    \A i \in 1..Len(table) :
        input = Text(table[i][1]) =>
            /\ pc # "failed"
            /\ pc = "done" => Len(out) = 5 /\ Join(out) = table[i][2]

C1_Witness ==
    /\ pc = "done"
    /\ impl = "stream"
    /\ input = Text(Vec3)
    /\ Join(out) = "a49b2446 a02c645b f419f995 b6709125 3a04a259"

\* C2: sha1 returns exactly five strings, each a group of exactly 8 lowercase
\* hexadecimal digits, whatever the value of the word.
C2_EightDigits ==
    pc = "done" => Len(out) = 5 /\ \A i \in 1..Len(out) : Len(out[i]) = 8

\* C3: for an input that is no string, sha1 fails with the unsupported-input-type
\* error before any block is compressed and returns no digest, partial or whole.
C3_NonText ==
    ~IsText =>
        /\ out = <<>>
        /\ states = <<>>
        /\ blockList = <<>>
        /\ ~Running
        /\ pc \notin {"return", "done"}
        /\ pc = "failed" => error = "unsupported input type"
        /\ pc # "failed" => ENABLED Next

C3_Witness ==
    /\ input.type = "number"
    /\ impl = "stream"
    /\ pc = "failed"
    /\ error = "unsupported input type"
    /\ hash = IV

\* C4: every byte that enters padding, block parsing and compression is in
\* [0, 255]: sha1 never returns a digest computed from an out-of-range byte.
C4_ByteRange ==
    pc = "done" => \A i \in 1..Len(stream) : stream[i] \in 0..255

\* C5: the padded stream of a message of L bytes is 64 * ceil((L + 9) / 64)
\* bytes long, a positive multiple of 64, and the number k of zero bytes added
\* is in 0..63.
C5_PaddedLength ==
    (IsText /\ PadDone) =>
        LET k == Len(stream) - 9 - MsgLen
        IN  /\ Len(stream) > 0
            /\ Len(stream) % 64 = 0
            /\ Len(stream) = 64 * ((MsgLen + 9 + 63) \div 64)
            /\ k >= 0
            /\ k <= 63

C5_Witness ==
    /\ impl = "stream"
    /\ PadDone
    /\ MsgLen = 56
    /\ Len(stream) = 128

RECURSIVE BigEndian(_)
BigEndian(bs) ==
    IF Len(bs) = 0 THEN 0
    ELSE BigEndian(SubSeq(bs, 1, Len(bs) - 1)) * 256 + bs[Len(bs)]

\* C6: the padded stream is the L message bytes unchanged, one byte 128, k zero
\* bytes and the 8-byte big-endian encoding of 8 * L; the last 8 bytes decoded
\* and divided by 8 give L.
C6_PaddedLayout ==
    (IsText /\ PadDone) =>
        LET n == Len(stream)
        IN  /\ n >= MsgLen + 9
            /\ SubSeq(stream, 1, MsgLen) = input.chars
            /\ stream[MsgLen + 1] = 128
            /\ \A i \in (MsgLen + 2)..(n - 8) : stream[i] = 0
            /\ \A i \in (n - 7)..n : stream[i] \in 0..255
            \* 8 * L < 2^24 for the messages here: the five leading bytes are 0
            /\ \A i \in (n - 7)..(n - 3) : stream[i] = 0
            /\ BigEndian(SubSeq(stream, n - 2, n)) = 8 * MsgLen
            /\ BigEndian(SubSeq(stream, n - 2, n)) \div 8 = MsgLen

C6_Witness ==
    /\ impl = "stream"
    /\ PadDone
    /\ MsgLen = 56
    /\ SubSeq(stream, 121, 128) = <<0, 0, 0, 0, 0, 0, 1, 192>>
    /\ stream[57] = 128

Blocks(L) == (L + 9 + 63) \div 64

LastState == IF Len(states) = 0 THEN IV ELSE states[Len(states)]

C7_Inv ==
    (IsText /\ impl = "stream") =>
        \* the stream is exhausted only after ceil((L + 9) / 64) >= 1 steps
        /\ gen.phase = "end" =>
              /\ Len(states) = Blocks(MsgLen)
              /\ Len(states) >= 1
              /\ ~Running
        /\ pc \in {"return", "done"} => gen.phase = "end"
        \* a step works on the next 64 bytes of the stream, from the state
        \* the step before it returned
        /\ Running =>
              /\ Len(stream) = 64 * (Len(states) + 1)
              /\ block = words(SubSeq(stream, 64 * Len(states) + 1, Len(stream)))
              /\ hash = LastState
        /\ (pc = "round" /\ t = 0) => v = LastState
        /\ hash # <<>> => hash = LastState

C7_Step ==
    (IsText /\ impl = "stream" /\ impl' = "stream") =>
        /\ states' # states =>
              /\ pc = "addvec"
              /\ states' = Append(states, hash')
        /\ pc # "done"
        /\ (pc' = "done" /\ Len(states) = 0) => FALSE

\* C7: one run of sha1 performs exactly ceil((L + 9) / 64) >= 1 compression
\* steps, one per 64-byte block in stream order, each from the state the step
\* before returned; it is never finalized with no step done, and no step follows
\* the end of the block sequence.
C7_Run == []C7_Inv /\ [][C7_Step]_vars

C7_Witness ==
    /\ impl = "stream"
    /\ pc = "done"
    /\ MsgLen = 112
    /\ Len(states) = 2
    /\ states[1] # states[2]

\* C8: for a text input whose character codes are all in [0, 255] none of the
\* fatal checks fires, and the run goes on until sha1 returns a digest.
C8_NoFatal ==
    (IsText /\ SingleByte(input.chars)) =>
        /\ error = ""
        /\ pc # "failed"
        /\ pc = "done" => Len(out) = 5
        \* the run is never stuck: a step can be taken, and inside the two loops
        \* of digest the loop condition holds
        /\ pc \notin {"done", "schedule", "round"} => ENABLED Next
        /\ pc = "schedule" => t \in 16..79 /\ Len(W) = t
        /\ pc = "round" => t \in 0..79 /\ Len(W) = 80 /\ Len(v) = 5

C8_Witness ==
    /\ impl = "stream"
    /\ pc = "done"
    /\ error = ""
    /\ MsgLen = 57
    /\ Len(states) = 2

\* C9 as claimed: for every r in [0, 31] the rotation by r followed by the
\* rotation by 32 - r returns w.
C9_RoundTripAll ==
    (rot.step # "idle" /\ rot.r \in 0..31) =>
        /\ rot.step # "failed"
        /\ rot.step = "done" => rot.twice = rot.w

\* C9: for every r in [1, 31], ROTL(32 - r, ROTL(r, w)) = w; ROTL(0, w) = w, and
\* its inverse ROTL(32, w) is refused with "invalid left shift amount"; every
\* ROTL result is in [0, 2^32 - 1].
C9_RoundTrip ==
    rot.step # "idle" =>
        /\ rot.step \in {"back", "done"} => isUint32(rot.once)
        /\ rot.step = "done" => isUint32(rot.twice) /\ rot.twice = rot.w
        /\ rot.r \in 1..31 => rot.step # "failed"
        /\ rot.r = 0 =>
              /\ rot.step # "done"
              /\ rot.step = "back" => rot.once = rot.w
              /\ rot.step = "failed" => rot.error = "invalid left shift amount"

C9_Witness ==
    /\ rot.step = "done"
    /\ rot.r = 5
    /\ rot.w = [hi |-> 32768, lo |-> 1]
    /\ rot.once = [hi |-> 0, lo |-> 48]
    /\ rot.twice = rot.w

\* C10: on a text input whose character codes are all in [0, 255] the array
\* version produces the padded bytes, the blocks, the state after each block and
\* the five strings that the stream version produced.
C10_Equivalent ==
    (IsText /\ SingleByte(input.chars) /\ impl = "array") =>
        /\ first.ran
        /\ first.error = ""
        /\ error = ""
        /\ stream = first.stream
        /\ blockList = first.blockList
        /\ Len(states) <= Len(first.states)
        /\ states = SubSeq(first.states, 1, Len(states))
        /\ pc = "done" => states = first.states /\ out = first.out /\ Len(out) = 5

C10_Witness ==
    /\ impl = "array"
    /\ pc = "done"
    /\ MsgLen = 112
    /\ Len(states) = 2
    /\ out = first.out
    /\ Join(out) = "a49b2446 a02c645b f419f995 b6709125 3a04a259"

=============================================================================
